---------------------------- MODULE Spec2Model ----------------------------
(***************************************************************************)
(* Model of the calendar service of src/main.py: the POST /calendar        *)
(* handler make_calendar, its helpers _parse_dates, _group_by_month and    *)
(* _build_calendar_message, and the GET /health handler.                   *)
(*                                                                         *)
(* Text is a sequence of characters.  A character is the one-character    *)
(* string, or, where a TLA+ string cannot hold it, the name of its code    *)
(* point ("U+0060" is the grave accent, "U+2705" the check mark, "U+FF15"  *)
(* the fullwidth digit five).                                              *)
(*                                                                         *)
(* The service keeps no state between calls.  A behaviour is one call:     *)
(* the initial state holds the call and its arguments, the action of the   *)
(* called function stores what it returns or raises.                       *)
(***************************************************************************)
EXTENDS Integers, Sequences, FiniteSets, TLC

VARIABLES call, ret

vars == <<call, ret>>

(***************************************************************************)
(* Bounds of the model.                                                    *)
(***************************************************************************)
\* longest list of date strings posted to /calendar
MaxDates == 3
\* longest list of date strings handed to _parse_dates directly
MaxParse == 2
\* largest number of marked days handed to _build_calendar_message directly
MaxMarked == 2

(***************************************************************************)
(* Input domains.                                                          *)
(***************************************************************************)
RequestLiterals ==
    { <<"1", "4", "-", "0", "3", "-", "2", "0", "2", "5">>,
      <<"2", "0", "-", "0", "3", "-", "2", "0", "2", "5">>,
      <<"1", "-", "3", "-", "2", "0", "2", "5">>,
      <<"0", "1", "-", "0", "4", "-", "2", "0", "2", "5">>,
      <<"1", "4", "-", "0", "3", "-", "2", "0", "2", "4">>,
      <<"3", "1", "-", "0", "4", "-", "2", "0", "2", "5">>,
      <<"2", "0", "2", "5", "-", "0", "3", "-", "1", "4">>,
      <<"0", "5", "-", "0", "1", "-", "0", "9", "9", "9">> }

ParseLiterals ==
    RequestLiterals \cup
    { <<"1", "4", "/", "0", "3", "/", "2", "0", "2", "5">>,
      <<"0", "0", "-", "0", "3", "-", "2", "0", "2", "5">>,
      <<"1", "4", "-", "1", "3", "-", "2", "0", "2", "5">>,
      <<" ", "1", "-", "0", "3", "-", "2", "0", "2", "5">>,
      <<"0", "1", "-", "3", "-", "2", "0", "2", "5">>,
      <<"1", "4", "-", "0", "3", "-", "2", "5">>,
      <<"1", "4", "-", "0", "3", "-", "2", "0", "2", "5", " ">>,
      <<"2", "9", "-", "0", "2", "-", "2", "0", "2", "4">>,
      <<"2", "9", "-", "0", "2", "-", "2", "0", "2", "5">>,
      <<"1", "4", "-", "0", "3", "-", "0", "0", "0", "0">>,
      <<"1", "4", "-", "0", "3", "-", "2", "0", "2", "U+FF15">>,
      <<>>,
      <<"1", "4", "-", "-", "0", "3", "-", "2", "0", "2", "5">>,
      <<"3", "2", "-", "0", "3", "-", "2", "0", "2", "5">>,
      <<"1", "U+FF14", "-", "0", "3", "-", "2", "0", "2", "5">> }

\* the default emoji of CalendarRequest, a check mark
DefaultEmoji == <<"U+2705">>

\* markers posted to /calendar
RequestEmojis == { DefaultEmoji, <<>>, <<"a", " ", "b">> }

\* markers handed to _build_calendar_message directly
Markers ==
    RequestEmojis \cup
    { <<" ", "x">>, <<"7">>, <<"a", "b">>, <<"a", " ", " ", "b">> }

Years == {1900, 2000, 2021, 2024, 2025}
Months == 1..12

\* days offered as marked; 0 is the value of an empty calendar slot
MarkDays == {0, 1, 2, 7, 8, 15, 28, 29, 30, 31}

SeqsUpTo(S, n) == UNION { [1..k -> S] : k \in 0..n }

SubsetsUpTo(S, n) == { T \in SUBSET S : Cardinality(T) <= n }

(***************************************************************************)
(* Text: the str operations the code uses.                                 *)
(***************************************************************************)
DIGITS == <<"0", "1", "2", "3", "4", "5", "6", "7", "8", "9">>

FULLWIDTH_DIGITS ==
    <<"U+FF10", "U+FF11", "U+FF12", "U+FF13", "U+FF14",
      "U+FF15", "U+FF16", "U+FF17", "U+FF18", "U+FF19">>

WHITESPACE == {" ", "\t", "\n", "\r"}

Range(s) == { s[i] : i \in 1..Len(s) }

\* the regular expression class \d of a str pattern: any Unicode decimal digit
IsDigit(c) == c \in Range(DIGITS) \cup Range(FULLWIDTH_DIGITS)

DigitValue(c) ==
    IF c \in Range(DIGITS)
    THEN (CHOOSE i \in 1..10 : DIGITS[i] = c) - 1
    ELSE (CHOOSE i \in 1..10 : FULLWIDTH_DIGITS[i] = c) - 1

RECURSIVE Concat(_)
Concat(ts) == IF ts = <<>> THEN <<>> ELSE Head(ts) \o Concat(Tail(ts))

\* sep.join(parts)
Join(sep, parts) ==
    IF parts = <<>> THEN <<>>
    ELSE parts[1] \o Concat([i \in 1..(Len(parts) - 1) |-> sep \o parts[i + 1]])

\* t.split(c), c one character
RECURSIVE Split(_, _)
Split(t, c) ==
    IF \A i \in 1..Len(t) : t[i] # c THEN <<t>>
    ELSE LET i == CHOOSE k \in 1..Len(t) :
                      t[k] = c /\ \A j \in 1..(k - 1) : t[j] # c
         IN  <<SubSeq(t, 1, i - 1)>> \o Split(SubSeq(t, i + 1, Len(t)), c)

\* t.strip()
Strip(t) ==
    LET keep == { i \in 1..Len(t) : t[i] \notin WHITESPACE }
    IN  IF keep = {} THEN <<>>
        ELSE SubSeq(t, CHOOSE i \in keep : \A j \in keep : i <= j,
                       CHOOSE i \in keep : \A j \in keep : i >= j)

\* str(n), n >= 0
RECURSIVE Str(_)
Str(n) ==
    IF n < 10 THEN <<DIGITS[n + 1]>>
    ELSE Str(n \div 10) \o <<DIGITS[(n % 10) + 1]>>

\* format(n, "0<w>d"), n >= 0: f"{year:04d}", f"{month:02d}"
ZeroPad(n, w) ==
    LET s == Str(n)
    IN  IF Len(s) >= w THEN s ELSE [i \in 1..(w - Len(s)) |-> "0"] \o s

RECURSIVE IntOfDigits(_)
IntOfDigits(t) ==
    IF t = <<>> THEN 0
    ELSE 10 * IntOfDigits(SubSeq(t, 1, Len(t) - 1)) + DigitValue(t[Len(t)])

\* int(t): the digits of t, surrounding whitespace ignored
ParseInt(t) == IntOfDigits(Strip(t))

(***************************************************************************)
(* The calendar arithmetic of the standard library.                        *)
(***************************************************************************)
isleap(year) == year % 4 = 0 /\ (year % 100 # 0 \/ year % 400 = 0)

mdays == <<31, 28, 31, 30, 31, 30, 31, 31, 30, 31, 30, 31>>

ndays(year, month) ==
    mdays[month] + (IF month = 2 /\ isleap(year) THEN 1 ELSE 0)

RECURSIVE days_before_month(_, _)
days_before_month(year, month) ==
    IF month = 1 THEN 0
    ELSE days_before_month(year, month - 1) + ndays(year, month - 1)

days_before_year(year) ==
    LET y == year - 1
    IN  y * 365 + (y \div 4) - (y \div 100) + (y \div 400)

\* date(year, month, day).toordinal()
ymd2ord(year, month, day) ==
    days_before_year(year) + days_before_month(year, month) + day

\* calendar.weekday: 0 is Monday, 6 is Sunday
weekday(year, month, day) == (ymd2ord(year, month, day) + 6) % 7

\* Calendar(firstweekday).itermonthdays(year, month)
itermonthdays(firstweekday, year, month) ==
    LET day1 == weekday(year, month, 1)
        n == ndays(year, month)
        days_before == (day1 - firstweekday) % 7
        days_after == (firstweekday - day1 - n) % 7
    IN  [i \in 1..(days_before + n + days_after) |->
            IF i <= days_before \/ i > days_before + n THEN 0
            ELSE i - days_before]

\* a changed monthdayscalendar: the week starts on Sunday
monthdayscalendar_sunday_first(year, month) ==
    LET days == itermonthdays(6, year, month)
    IN  [w \in 1..(Len(days) \div 7) |-> SubSeq(days, 7 * w - 6, 7 * w)]

\* Calendar(firstweekday=MONDAY).monthdayscalendar(year, month)
monthdayscalendar(year, month) ==
    LET days == itermonthdays(0, year, month)
    IN  [w \in 1..(Len(days) \div 7) |-> SubSeq(days, 7 * w - 6, 7 * w)]

(***************************************************************************)
(* datetime.strptime(s, "%d-%m-%Y").  The format compiles to the regular   *)
(* expression                                                              *)
(*   (3[0-1]|[1-2]\d|0[1-9]|[1-9]| [1-9])-(1[0-2]|0[1-9]|[1-9])-(\d\d\d\d)  *)
(* which must match the whole of s; no group can hold a "-", so s matches  *)
(* exactly when its three "-"-separated parts match the three groups.      *)
(* The numbers are then read with int and the date is built, which fails   *)
(* for a year below 1 or a day the month does not have.                    *)
(***************************************************************************)
re_d(t) ==
    \/ Len(t) = 2 /\ t[1] = "3" /\ t[2] \in {"0", "1"}
    \/ Len(t) = 2 /\ t[1] \in {"1", "2"} /\ IsDigit(t[2])
    \/ Len(t) = 2 /\ t[1] = "0" /\ t[2] \in Range(DIGITS) \ {"0"}
    \/ Len(t) = 1 /\ t[1] \in Range(DIGITS) \ {"0"}
    \/ Len(t) = 2 /\ t[1] = " " /\ t[2] \in Range(DIGITS) \ {"0"}

re_m(t) ==
    \/ Len(t) = 2 /\ t[1] = "1" /\ t[2] \in {"0", "1", "2"}
    \/ Len(t) = 2 /\ t[1] = "0" /\ t[2] \in Range(DIGITS) \ {"0"}
    \/ Len(t) = 1 /\ t[1] \in Range(DIGITS) \ {"0"}

re_Y(t) == Len(t) = 4 /\ \A i \in 1..4 : IsDigit(t[i])

ValueError == [ok |-> FALSE, year |-> 0, month |-> 0, day |-> 0]

strptime(s) ==
    LET parts == Split(s, "-")
    IN  IF Len(parts) # 3 THEN ValueError
        ELSE IF ~(re_d(parts[1]) /\ re_m(parts[2]) /\ re_Y(parts[3]))
        THEN ValueError
        ELSE LET day == ParseInt(parts[1])
                 month == ParseInt(parts[2])
                 year == ParseInt(parts[3])
             IN  IF year < 1 \/ day > ndays(year, month) THEN ValueError
                 ELSE [ok |-> TRUE, year |-> year, month |-> month, day |-> day]

(***************************************************************************)
(* The values a call returns or raises.                                    *)
(***************************************************************************)
Pending == [kind |-> "pending"]

HTTPException(status_code, detail) ==
    [kind |-> "HTTPException", status_code |-> status_code, detail |-> detail]

CalendarResponse(month, message) ==
    [kind |-> "CalendarResponse", month |-> month, message |-> message]

INVALID_PREFIX == <<"I", "n", "v", "a", "l", "i", "d", " ", "d", "a", "t", "e", " ", "\"">>

INVALID_SUFFIX ==
    <<"\"", ".", " ", "E", "x", "p", "e", "c", "t", "e", "d", " ",
      "f", "o", "r", "m", "a", "t", ":", " ",
      "D", "D", "-", "M", "M", "-", "Y", "Y", "Y", "Y", " ",
      "(", "e", ".", "g", ".", " ",
      "1", "4", "-", "0", "3", "-", "2", "0", "2", "5", ")">>

NO_DATES == <<"N", "o", " ", "d", "a", "t", "e", "s", " ", "p", "r", "o", "v", "i", "d", "e", "d">>

SPAN_PREFIX ==
    <<"D", "a", "t", "e", "s", " ", "s", "p", "a", "n", " ",
      "m", "u", "l", "t", "i", "p", "l", "e", " ",
      "m", "o", "n", "t", "h", "s", ":", " ">>

SPAN_SUFFIX ==
    <<".", " ", "S", "e", "n", "d", " ", "d", "a", "t", "e", "s", " ",
      "f", "o", "r", " ", "o", "n", "e", " ", "m", "o", "n", "t", "h", " ",
      "p", "e", "r", " ", "r", "e", "q", "u", "e", "s", "t", ".">>

\* repr of a list of str none of which holds a quote or a backslash
ReprStrList(items) ==
    <<"[">> \o Join(<<",", " ">>, [i \in 1..Len(items) |-> <<"'">> \o items[i] \o <<"'">>])
            \o <<"]">>

(***************************************************************************)
(* _parse_dates                                                            *)
(***************************************************************************)
RECURSIVE parse_loop(_, _, _)
parse_loop(date_strs, i, out) ==
    IF i > Len(date_strs) THEN [kind |-> "list", value |-> out]
    ELSE LET s == date_strs[i]
             dt == strptime(s)
         IN  IF ~dt.ok
             THEN HTTPException(400, INVALID_PREFIX \o s \o INVALID_SUFFIX)
             ELSE parse_loop(date_strs, i + 1,
                             Append(out, [year |-> dt.year, month |-> dt.month,
                                          day |-> dt.day]))

\* a changed _parse_dates: an entry that does not parse is skipped
_parse_dates_skipping_invalid(date_strs) ==
    LET parsed == [i \in 1..Len(date_strs) |-> strptime(date_strs[i])]
        valid == SelectSeq(parsed, LAMBDA dt : dt.ok)
    IN  [kind |-> "list",
         value |-> [i \in 1..Len(valid) |->
                       [year |-> valid[i].year, month |-> valid[i].month,
                        day |-> valid[i].day]]]

_parse_dates(date_strs) == parse_loop(date_strs, 1, <<>>)

(***************************************************************************)
(* _group_by_month.  A dict keeps its keys in insertion order: grouped is   *)
(* the sequence of its items.                                              *)
(***************************************************************************)
\* a changed setdefault_add: every date opens a group of its own
setdefault_add_new_group(grouped, key, day) ==
    Append(grouped, [key |-> key, days |-> {day}])

\* a changed setdefault_add: grouped[key] = {day}, the days before are lost
setdefault_overwrite(grouped, key, day) ==
    IF \E k \in 1..Len(grouped) : grouped[k].key = key
    THEN [k \in 1..Len(grouped) |->
            IF grouped[k].key = key
            THEN [grouped[k] EXCEPT !.days = {day}]
            ELSE grouped[k]]
    ELSE Append(grouped, [key |-> key, days |-> {day}])

\* grouped.setdefault(key, set()).add(day)
setdefault_add(grouped, key, day) ==
    IF \E k \in 1..Len(grouped) : grouped[k].key = key
    THEN [k \in 1..Len(grouped) |->
            IF grouped[k].key = key
            THEN [grouped[k] EXCEPT !.days = @ \cup {day}]
            ELSE grouped[k]]
    ELSE Append(grouped, [key |-> key, days |-> {day}])

RECURSIVE group_loop(_, _, _)
group_loop(dts, i, grouped) ==
    IF i > Len(dts) THEN grouped
    ELSE group_loop(dts, i + 1,
                    setdefault_add(grouped, <<dts[i].year, dts[i].month>>, dts[i].day))

\* a changed _group_by_month: the key is the month alone, under the year
\* of the first date
_group_by_month_ignoring_year(dts) ==
    group_loop([i \in 1..Len(dts) |-> [dts[i] EXCEPT !.year = dts[1].year]], 1, <<>>)

_group_by_month(dts) == group_loop(dts, 1, <<>>)

(***************************************************************************)
(* _build_calendar_message                                                 *)
(***************************************************************************)
WEEKDAYS_RU ==
    << <<"U+041F", "U+043D">>, <<"U+0412", "U+0442">>, <<"U+0421", "U+0440">>,
       <<"U+0427", "U+0442">>, <<"U+041F", "U+0442">>, <<"U+0421", "U+0431">>,
       <<"U+0412", "U+0441">> >>

HEADER_PREFIX ==
    <<"U+041A", "U+0430", "U+043B", "U+0435", "U+043D", "U+0434", "U+0430",
      "U+0440", "U+044C", " ",
      "U+0430", "U+043A", "U+0442", "U+0438", "U+0432", "U+043D", "U+043E",
      "U+0441", "U+0442", "U+0435", "U+0439", " ",
      "U+0434", "U+043B", "U+044F", " ">>

FENCE_OPEN == <<"U+0060", "U+0060", "U+0060", "t", "e", "x", "t", "\n">>

FENCE_CLOSE == <<"\n", "U+0060", "U+0060", "U+0060">>

cell(d, marked_days, emoji) ==
    IF d = 0 THEN <<>>
    ELSE IF d \in marked_days THEN emoji
    ELSE Str(d)

\* the line of one week: the cells joined, stripped, split at " " and
\* joined again without the empty parts
week_row(week, marked_days, emoji) ==
    LET row == Strip(Join(<<" ">>, [k \in 1..Len(week) |-> cell(week[k], marked_days, emoji)]))
    IN  Join(<<" ">>, SelectSeq(Split(row, " "), LAMBDA part : part # <<>>))

\* a changed year_month: no zero padding
year_month_unpadded(year, month) == Str(year) \o <<"-">> \o Str(month)

\* f"{year:04d}-{month:02d}"
year_month(year, month) == ZeroPad(year, 4) \o <<"-">> \o ZeroPad(month, 2)

_build_calendar_message(year, month, marked_days, emoji) ==
    LET weeks == monthdayscalendar(year, month)
        rows == [w \in 1..Len(weeks) |-> week_row(weeks[w], marked_days, emoji)]
        lines == << HEADER_PREFIX \o year_month(year, month) \o <<":">>,
                    Join(<<" ">>, WEEKDAYS_RU),
                    <<>>,
                    <<>> >>
                 \o SelectSeq(rows, LAMBDA row : row # <<>>)
    IN  FENCE_OPEN \o Join(<<"\n">>, lines) \o FENCE_CLOSE

(***************************************************************************)
(* The handlers.                                                           *)
(***************************************************************************)
health == [kind |-> "dict", status |-> "ok"]

make_calendar(dates, emoji) ==
    LET dts == _parse_dates(dates)
    IN  IF dts.kind = "HTTPException" THEN dts
        ELSE LET grouped == _group_by_month(dts.value)
             IN  IF Len(grouped) = 0 THEN HTTPException(400, NO_DATES)
                 ELSE IF Len(grouped) > 1
                 THEN LET months == [k \in 1..Len(grouped) |->
                                        year_month(grouped[k].key[1], grouped[k].key[2])]
                      IN  HTTPException(400, SPAN_PREFIX \o ReprStrList(months) \o SPAN_SUFFIX)
                 ELSE LET year == grouped[1].key[1]
                          month == grouped[1].key[2]
                          marked == grouped[1].days
                          message == _build_calendar_message(year, month, marked, emoji)
                      IN  CalendarResponse(year_month(year, month), message)

(***************************************************************************)
(* The state machine: one call, drawn in the initial state, and the action *)
(* of the function it names.                                               *)
(***************************************************************************)
Calls ==
    { [op |-> "health"] }
    \cup [op : {"make_calendar"}, dates : SeqsUpTo(RequestLiterals, MaxDates),
          emoji : RequestEmojis]
    \cup [op : {"_parse_dates"}, date_strs : SeqsUpTo(ParseLiterals, MaxParse)]
    \cup [op : {"_build_calendar_message"}, year : Years, month : Months,
          marked_days : SubsetsUpTo(MarkDays, MaxMarked), emoji : Markers]

Init == call \in Calls /\ ret = Pending

Health ==
    /\ call.op = "health" /\ ret = Pending
    /\ ret' = health
    /\ UNCHANGED call

MakeCalendar ==
    /\ call.op = "make_calendar" /\ ret = Pending
    /\ ret' = make_calendar(call.dates, call.emoji)
    /\ UNCHANGED call

ParseDates ==
    /\ call.op = "_parse_dates" /\ ret = Pending
    /\ ret' = _parse_dates(call.date_strs)
    /\ UNCHANGED call

BuildCalendarMessage ==
    /\ call.op = "_build_calendar_message" /\ ret = Pending
    /\ ret' = [kind |-> "str",
               value |-> _build_calendar_message(call.year, call.month,
                                                 call.marked_days, call.emoji)]
    /\ UNCHANGED call

Next == Health \/ MakeCalendar \/ ParseDates \/ BuildCalendarMessage

Spec == Init /\ [][Next]_vars

(***************************************************************************)
(* Reference definitions the properties are stated with.  They are written *)
(* from what the properties say, not from the code above.                  *)
(***************************************************************************)
StartsWith(t, prefix) ==
    Len(t) >= Len(prefix) /\ SubSeq(t, 1, Len(prefix)) = prefix

EndsWith(t, suffix) ==
    Len(t) >= Len(suffix) /\ SubSeq(t, Len(t) - Len(suffix) + 1, Len(t)) = suffix

Returned == ret # Pending

IsSuccess(r) == r.kind = "CalendarResponse"

IsInvalidDateFormat(r) ==
    /\ r.kind = "HTTPException"
    /\ StartsWith(r.detail, INVALID_PREFIX)
    /\ EndsWith(r.detail, INVALID_SUFFIX)

IsNoDatesProvided(r) == r.kind = "HTTPException" /\ r.detail = NO_DATES

IsMultiMonthSpan(r) ==
    /\ r.kind = "HTTPException"
    /\ StartsWith(r.detail, SPAN_PREFIX)
    /\ EndsWith(r.detail, SPAN_SUFFIX)

\* the literal an InvalidDateFormat detail quotes
QuotedLiteral(detail) ==
    SubSeq(detail, Len(INVALID_PREFIX) + 1, Len(detail) - Len(INVALID_SUFFIX))

\* the month keys a MultiMonthSpan detail lists, in the order it lists them
ListedMonths(detail) ==
    LET list == SubSeq(detail, Len(SPAN_PREFIX) + 1, Len(detail) - Len(SPAN_SUFFIX))
        items == Split(SubSeq(list, 2, Len(list) - 1), ",")
    IN  [k \in 1..Len(items) |->
            LET item == Strip(items[k]) IN SubSeq(item, 2, Len(item) - 1)]

AsciiDigit(c) == c \in {"0", "1", "2", "3", "4", "5", "6", "7", "8", "9"}

AsciiValue(c) == CHOOSE v \in 0..9 : DIGITS[v + 1] = c

RefLeap(y) == (y % 4 = 0 /\ y % 100 # 0) \/ y % 400 = 0

RefDaysIn(y, m) ==
    CASE m \in {4, 6, 9, 11} -> 30
      [] m = 2 -> IF RefLeap(y) THEN 29 ELSE 28
      [] OTHER -> 31

\* the fields of a string of the shape DD-MM-YYYY
RefDay(s) == 10 * AsciiValue(s[1]) + AsciiValue(s[2])

RefMonth(s) == 10 * AsciiValue(s[4]) + AsciiValue(s[5])

RefYear(s) ==
    1000 * AsciiValue(s[7]) + 100 * AsciiValue(s[8])
        + 10 * AsciiValue(s[9]) + AsciiValue(s[10])

\* s has exactly the shape DD-MM-YYYY and names a day of the calendar
StrictValid(s) ==
    /\ Len(s) = 10
    /\ s[3] = "-" /\ s[6] = "-"
    /\ \A i \in {1, 2, 4, 5, 7, 8, 9, 10} : AsciiDigit(s[i])
    /\ RefYear(s) >= 1
    /\ RefMonth(s) \in 1..12
    /\ RefDay(s) >= 1 /\ RefDay(s) <= RefDaysIn(RefYear(s), RefMonth(s))

\* the YYYY-MM of a string of the shape DD-MM-YYYY
RefMonthKey(s) == SubSeq(s, 7, 10) \o <<"-">> \o SubSeq(s, 4, 5)

\* YYYY-MM of a year in 0..9999 and a month
RefYearMonth(y, m) ==
    << DIGITS[((y \div 1000) % 10) + 1], DIGITS[((y \div 100) % 10) + 1],
       DIGITS[((y \div 10) % 10) + 1], DIGITS[(y % 10) + 1], "-",
       DIGITS[(m \div 10) + 1], DIGITS[(m % 10) + 1] >>

\* the decimal number of a day, no leading zero
RefDecimal(d) ==
    IF d < 10 THEN <<DIGITS[d + 1]>>
    ELSE <<DIGITS[(d \div 10) + 1], DIGITS[(d % 10) + 1]>>

\* the weekday of the first of the month, 0 Monday .. 6 Sunday, by the
\* month-table congruence (0 Sunday) moved to a Monday-first week
RefFirstWeekday(y, m) ==
    LET table == <<0, 3, 2, 5, 0, 3, 5, 1, 4, 6, 2, 4>>
        yy == IF m < 3 THEN y - 1 ELSE y
        sunday0 == (yy + (yy \div 4) - (yy \div 100) + (yy \div 400) + table[m] + 1) % 7
    IN  (sunday0 + 6) % 7

\* the number of Monday-first weeks the month overlaps
RefWeeks(y, m) == (RefFirstWeekday(y, m) + RefDaysIn(y, m) + 6) \div 7

\* the days of the month in its r-th Monday-first week, ascending
RefWeekDays(y, m, r) ==
    LET off == RefFirstWeekday(y, m)
        lo == IF r = 1 THEN 1 ELSE 7 * (r - 1) - off + 1
        hi == IF 7 * r - off > RefDaysIn(y, m) THEN RefDaysIn(y, m) ELSE 7 * r - off
    IN  [k \in 1..(hi - lo + 1) |-> lo + k - 1]

\* what a day of the month is to be shown as
RefToken(d, marked, marker) == IF d \in marked THEN marker ELSE RefDecimal(d)

RefRowTokens(y, m, r, marked, marker) ==
    LET days == RefWeekDays(y, m, r)
    IN  [k \in 1..Len(days) |-> RefToken(days[k], marked, marker)]

\* the week rows of a rendered message: its lines after the fence, the
\* header, the weekday labels and the two empty lines, before the fence
WeekRows(message) ==
    LET lines == Split(message, "\n")
    IN  SubSeq(lines, 6, Len(lines) - 1)

\* a marker that is one visible token: not empty, no whitespace in it
TokenLike(marker) ==
    marker # <<>> /\ \A i \in 1..Len(marker) : marker[i] \notin WHITESPACE

NoStraySpace(row) ==
    /\ row # <<>>
    /\ row[1] # " " /\ row[Len(row)] # " "
    /\ \A i \in 1..(Len(row) - 1) : ~(row[i] = " " /\ row[i + 1] = " ")

InsertAt(seq, p, x) == SubSeq(seq, 1, p) \o <<x>> \o SubSeq(seq, p + 1, Len(seq))

AllParse(dates) == \A i \in 1..Len(dates) : strptime(dates[i]).ok

ParsedMonthKeys(dates) ==
    { RefYearMonth(strptime(dates[i]).year, strptime(dates[i]).month) :
        i \in 1..Len(dates) }

(***************************************************************************)
(* The properties.                                                         *)
(***************************************************************************)

(* C1: Single-month invariant.  A call of make_calendar whose date strings *)
(* all parse and together name two or more (year, month) pairs fails with  *)
(* the "Dates span multiple months" error, the list in the error holds     *)
(* exactly the distinct YYYY-MM keys of the input, each once, and no       *)
(* success record is returned.                                             *)
C1_SingleMonthInvariant ==
    ( /\ call.op = "make_calendar" /\ Returned
      /\ AllParse(call.dates)
      /\ Cardinality(ParsedMonthKeys(call.dates)) >= 2 )
    => /\ IsMultiMonthSpan(ret)
       /\ ~IsSuccess(ret)
       /\ Range(ListedMonths(ret.detail)) = ParsedMonthKeys(call.dates)
       /\ Len(ListedMonths(ret.detail)) = Cardinality(ParsedMonthKeys(call.dates))

\* three dates of two months, one month named twice, were rejected
C1_Witness ==
    /\ call.op = "make_calendar" /\ Returned
    /\ Len(call.dates) = 3
    /\ AllParse(call.dates)
    /\ Cardinality(ParsedMonthKeys(call.dates)) = 2
    /\ IsMultiMonthSpan(ret)

(* C2: Format validation.  A call of _parse_dates holding a string that    *)
(* is not exactly of the shape DD-MM-YYYY, or that names no day of the     *)
(* calendar, fails with InvalidDateFormat.                                 *)
C2_FormatValidation ==
    ( /\ call.op = "_parse_dates" /\ Returned
      /\ \E i \in 1..Len(call.date_strs) : ~StrictValid(call.date_strs[i]) )
    => IsInvalidDateFormat(ret)

(* C3: Fail-fast validation.  A call of make_calendar holding an invalid   *)
(* entry fails with InvalidDateFormat, and the detail quotes the first     *)
(* invalid entry of the input, unchanged, whatever the other entries are.  *)
C3_FailFast ==
    ( /\ call.op = "make_calendar" /\ Returned
      /\ \E i \in 1..Len(call.dates) : ~StrictValid(call.dates[i]) )
    => LET first == CHOOSE i \in 1..Len(call.dates) :
                        /\ ~StrictValid(call.dates[i])
                        /\ \A j \in 1..(i - 1) : StrictValid(call.dates[j])
       IN  /\ IsInvalidDateFormat(ret)
           /\ QuotedLiteral(ret.detail) = call.dates[first]

(* The part of C3 that holds: over the entries strptime rejects, the       *)
(* first one is the one reported, before any other error.                  *)
FailFastOverRejected ==
    ( /\ call.op = "make_calendar" /\ Returned
      /\ \E i \in 1..Len(call.dates) : ~strptime(call.dates[i]).ok )
    => LET first == CHOOSE i \in 1..Len(call.dates) :
                        /\ ~strptime(call.dates[i]).ok
                        /\ \A j \in 1..(i - 1) : strptime(call.dates[j]).ok
       IN  /\ IsInvalidDateFormat(ret)
           /\ QuotedLiteral(ret.detail) = call.dates[first]

(* C4: Success record.  A call of make_calendar with a non-empty list of   *)
(* valid dates of one (year, month) returns a success record whose month   *)
(* is that year and month as zero-padded YYYY-MM and whose message is      *)
(* _build_calendar_message of that year, that month, the set of the days   *)
(* of the input and the marker of the request; the YYYY-MM of the header   *)
(* line of the message is the month of the record.                         *)
C4_SuccessRecord ==
    ( /\ call.op = "make_calendar" /\ Returned
      /\ call.dates # <<>>
      /\ \A i \in 1..Len(call.dates) : StrictValid(call.dates[i])
      /\ \A i \in 1..Len(call.dates) :
            RefMonthKey(call.dates[i]) = RefMonthKey(call.dates[1]) )
    => /\ IsSuccess(ret)
       /\ ret.month = RefMonthKey(call.dates[1])
       /\ ret.message =
            _build_calendar_message(RefYear(call.dates[1]), RefMonth(call.dates[1]),
                                    { RefDay(call.dates[i]) : i \in 1..Len(call.dates) },
                                    call.emoji)
       /\ EndsWith(Split(ret.message, "\n")[2], <<" ">> \o ret.month \o <<":">>)

\* two different days of one month were rendered
C4_Witness ==
    /\ call.op = "make_calendar" /\ Returned
    /\ Len(call.dates) >= 2
    /\ \A i \in 1..Len(call.dates) : StrictValid(call.dates[i])
    /\ \A i \in 1..Len(call.dates) :
          RefMonthKey(call.dates[i]) = RefMonthKey(call.dates[1])
    /\ \E i \in 1..Len(call.dates) : RefDay(call.dates[i]) # RefDay(call.dates[1])
    /\ IsSuccess(ret)

C6_GridShape ==
    ( call.op = "_build_calendar_message" /\ Returned )
    => LET rows == WeekRows(ret.value)
       IN  /\ Len(rows) = RefWeeks(call.year, call.month)
           /\ Len(rows) \in {4, 5, 6}
           /\ \A r \in 1..Len(rows) :
                 /\ NoStraySpace(rows[r])
                 /\ Len(Split(rows[r], " "))
                        = Len(RefWeekDays(call.year, call.month, r))

(* C7: Marker verbatim.  For every marker, the row of a week is the        *)
(* single-space join of what its days of the month are shown as, nothing   *)
(* for an empty slot, then the marker, character for character, for a day  *)
(* in marked_days, then the decimal number for any other day; a day shown  *)
(* as the empty text takes no place in the row, and a row left empty is    *)
(* not emitted.                                                            *)
C7_MarkerVerbatim ==
    ( call.op = "_build_calendar_message" /\ Returned )
    => LET visible(tokens) == SelectSeq(tokens, LAMBDA t : t # <<>>)
           expected == [r \in 1..RefWeeks(call.year, call.month) |->
                           Join(<<" ">>,
                                visible(RefRowTokens(call.year, call.month, r,
                                                     call.marked_days, call.emoji)))]
       IN  WeekRows(ret.value) = SelectSeq(expected, LAMBDA row : row # <<>>)

(* C8: Idempotence of duplicate marks.  When make_calendar succeeds on a   *)
(* list of dates, it returns the same month and the same message on the    *)
(* list with a copy of one of its entries inserted at any place.           *)
C8_DuplicateIdempotence ==
    ( call.op = "make_calendar" /\ Returned /\ IsSuccess(ret) )
    => \A i \in 1..Len(call.dates), p \in 0..Len(call.dates) :
          make_calendar(InsertAt(call.dates, p, call.dates[i]), call.emoji) = ret

\* a list of two different days, to which copies are added, was rendered
C8_Witness ==
    /\ call.op = "make_calendar" /\ Returned /\ IsSuccess(ret)
    /\ Len(call.dates) = 2
    /\ strptime(call.dates[1]).day # strptime(call.dates[2]).day

(* C9: NoDatesProvided.  make_calendar fails with "No dates provided"      *)
(* exactly when the list of date strings is empty; an empty list is never  *)
(* rendered, and a non-empty list gives InvalidDateFormat, MultiMonthSpan  *)
(* or a success record.                                                    *)
C9_NoDatesProvided ==
    ( call.op = "make_calendar" /\ Returned )
    => /\ IsNoDatesProvided(ret) <=> call.dates = <<>>
       /\ call.dates = <<>> => ~IsSuccess(ret)
       /\ call.dates # <<>> =>
             IsInvalidDateFormat(ret) \/ IsMultiMonthSpan(ret) \/ IsSuccess(ret)

\* the empty list was rejected
C9_Witness ==
    /\ call.op = "make_calendar" /\ Returned
    /\ call.dates = <<>>
    /\ IsNoDatesProvided(ret)

(* C10: Order independence.  When make_calendar succeeds on a list of      *)
(* dates, it returns the same month and the same message on every          *)
(* permutation of the list.                                                *)
C10_OrderIndependence ==
    ( call.op = "make_calendar" /\ Returned /\ IsSuccess(ret) )
    => \A p \in Permutations(1..Len(call.dates)) :
          make_calendar([i \in 1..Len(call.dates) |-> call.dates[p[i]]], call.emoji)
              = ret

\* a list of three entries naming two different days was rendered
C10_Witness ==
    /\ call.op = "make_calendar" /\ Returned /\ IsSuccess(ret)
    /\ Len(call.dates) = 3
    /\ strptime(call.dates[1]).day # strptime(call.dates[3]).day

=============================================================================
